---- MODULE Spec2Model ----
(***************************************************************************)
(* Model of generalized_merge_qids.py: the run of main() that enriches a   *)
(* CSV with Wikidata QIDs.  Codes are batched into SPARQL queries, sent    *)
(* through http_post_sparql (retry with backoff), the bindings are merged  *)
(* into code_hits, and every row is resolved against code_hits and its    *)
(* [EXT:token] tag.  The last sections add the two programs that come     *)
(* before it: harmonize_transmission_data.py, which writes the harmonized  *)
(* file, and generate_qs_csv.py, which writes the tags.                    *)
(*                                                                         *)
(* A Python string is a sequence of one-character strings, so that strip,  *)
(* slicing, rsplit and the substring test are computed and not assumed.    *)
(* Floating-point seconds are counted in tenths of a second.               *)
(***************************************************************************)
EXTENDS Integers, Sequences, FiniteSets, TLC

VARIABLES
    pc,          \* position of main(): "options", "prepare", "batch", "send", "merge", "rows", "done", "failed"
    args,        \* argparse namespace (line 147): each option <<>> (None) or <<value>>
    cfg_file,    \* what --config leads to: [kind, merge], see read_merge_cfg
    opts,        \* the resolved options (lines 153-160)
    df,          \* the input frame: [have_feature, have_coords, rows]
    ext_tokens,  \* per-row tokens (lines 169-177)
    codes,       \* sorted unique codes (line 179)
    bi,          \* the generator's offset i of line 204
    batches,     \* the batches the generator of line 204 has yielded so far
    attempt,     \* http_post_sparql's attempt counter (line 43)
    requests,    \* requests.post calls issued by the current send
    sleeps,      \* backoff sleeps taken by the current send
    last,        \* outcome of the latest attempt of the current send
    data,        \* what http_post_sparql returned to main: "none", "mapping", "other"
    received,    \* the bindings of all responses so far, in arrival order
    code_hits,   \* line 202
    total,       \* line 203
    chosen,      \* line 220
    unresolved,  \* line 221
    ambiguous,   \* line 221
    ri,          \* rows processed by the loop of line 222
    error,       \* the exception that ended the run, "" when none
    remote,      \* the bindings the remote source can return
    latencies,   \* how long a request can take before it returns or raises
    now,         \* time.time()
    start,       \* line 206
    first_at,    \* when the first request of each batch was issued
    source,      \* the table harmonize_transmission_data.py was run on
    csv,         \* the harmonized file the frame was read from, <<>> when
                 \* the frame is no harmonized file
    qs_tokens    \* the tokens generate_qs_csv.py wrote for the rows of csv

env == <<remote, latencies, source, csv>>

clock == <<now, start, first_at>>

vars == <<pc, args, cfg_file, opts, df, ext_tokens, codes, bi, batches, attempt,
          requests, sleeps, last, data, received, code_hits, total, chosen,
          unresolved, ambiguous, ri, error, remote, latencies, now, start,
          first_at, source, csv, qs_tokens>>

(***************************************************************************)
(* Bounds of the model.                                                    *)
(***************************************************************************)
MaxRows == 2        \* rows of the input frame
MaxBindings == 2    \* bindings the remote source returns over one run
MaxBatchRows == 4   \* rows of the frames whose codes are batched in SpecBatch

(***************************************************************************)
(* Python strings and pandas cells.                                        *)
(***************************************************************************)
Min(a, b) == IF a < b THEN a ELSE b

\* s[:n]
Take(s, n) == SubSeq(s, 1, Min(n, Len(s)))

\* Mutant of Slice: the slice loses its last element (s[i:j-1]).
Slice_Short(s, i, j) == SubSeq(s, Min(i, Len(s)) + 1, Min(j - 1, Len(s)))

\* s[i:j] for 0 <= i <= j (Python slice of a list or a string)
Slice(s, i, j) == SubSeq(s, Min(i, Len(s)) + 1, Min(j, Len(s)))

\* A missing cell of the frame (NaN); read_csv gives it for an empty field.
NaN == <<"NaN">>

\* Series.fillna("")
fillna(cell) == IF cell = NaN THEN <<>> ELSE cell

\* str(x) of a cell: str(float("nan")) is "nan"
str(cell) == IF cell = NaN THEN <<"n", "a", "n">> ELSE cell

\* x or ""
OrEmpty(cell) == IF cell = NaN \/ cell = <<>> THEN <<>> ELSE cell

RECURSIVE lstrip(_)
lstrip(s) == IF s # <<>> /\ Head(s) = " " THEN lstrip(Tail(s)) ELSE s

RECURSIVE rstrip(_)
rstrip(s) ==
    IF s # <<>> /\ s[Len(s)] = " " THEN rstrip(SubSeq(s, 1, Len(s) - 1)) ELSE s

\* str.strip()
strip(s) == rstrip(lstrip(s))

\* ord() of the characters the model's codes are written in
Ord(ch) ==
    CASE ch = " " -> 32
      [] ch = "a" -> 97
      [] ch = "b" -> 98
      [] ch = "c" -> 99
      [] ch = "n" -> 110
      [] OTHER -> 122

\* s < t for Python strings
RECURSIVE StrLess(_, _)
StrLess(s, t) ==
    IF t = <<>> THEN FALSE
    ELSE IF s = <<>> THEN TRUE
    ELSE IF Head(s) = Head(t) THEN StrLess(Tail(s), Tail(t))
    ELSE Ord(Head(s)) < Ord(Head(t))

\* sorted(S) for a set of strings
RECURSIVE sorted(_)
sorted(S) ==
    IF S = {} THEN <<>>
    ELSE LET m == CHOOSE x \in S : \A y \in S \ {x} : StrLess(x, y)
         IN <<m>> \o sorted(S \ {m})

\* needle in haystack (literal substring)
Contains(hay, needle) ==
    \E k \in 0..(Len(hay) - Len(needle)) :
        SubSeq(hay, k + 1, k + Len(needle)) = needle

(***************************************************************************)
(* sha1_token, qid_from_uri.                                               *)
(***************************************************************************)
TokenCoordsLen == 256

\* A character str.encode("utf-8", "ignore") drops (a lone surrogate).
Surrogate == "<d800>"

\* basis.encode("utf-8", "ignore")
EncodeIgnore(s) == SelectSeq(s, LAMBDA ch : ch # Surrogate)

\* hashlib.sha1(bytes).hexdigest()[:12]: SHA-1 is taken to be free of
\* collisions, so the 12 hexadecimal digits are written as the digested
\* bytes behind a mark; the result is never the empty string.
HexDigest12(bytes) == <<"#">> \o bytes

sha1_token(fid, coords_json) ==
    LET basis == fid \o <<"|">> \o Take(OrEmpty(coords_json), TokenCoordsLen)
    IN HexDigest12(EncodeIgnore(basis))

\* index of the last "/" of uri, 0 when there is none
LastSlash(uri) ==
    LET at == {k \in 1..Len(uri) : uri[k] = "/"}
    IN IF at = {} THEN 0 ELSE CHOOSE k \in at : \A j \in at : j <= k

\* uri.rsplit("/", 1)[-1]
qid_from_uri(uri) == SubSeq(uri, LastSlash(uri) + 1, Len(uri))

\* f"[EXT:{token}]"
Tag(token) == <<"[", "E", "X", "T", ":">> \o token \o <<"]">>

(***************************************************************************)
(* Options: read_merge_cfg and lines 152-160 of main.                      *)
(***************************************************************************)
None == <<>>
Some(v) == <<v>>

Defaults ==
    [wikidata_match_props |-> <<"P528">>,
     user_agent |-> "OET-wikidata-qid-generator/merge",
     batch_size |-> 75,
     throttle |-> 30,
     retries |-> 5,
     backoff |-> 16,
     language |-> "es"]

\* cfg_file.kind: "none" (no --config, or no yaml module), "broken" (the file
\* cannot be read or parsed), "ok" (cfg_file.merge is the wikidata_merge section)
read_merge_cfg(f) ==
    IF f.kind # "ok" THEN Defaults
    ELSE LET merge == [k \in DOMAIN Defaults |->
                          IF k \in DOMAIN f.merge THEN f.merge[k] ELSE Defaults[k]]
         IN IF merge.wikidata_match_props = <<>>
            THEN [merge EXCEPT !.wikidata_match_props = Defaults.wikidata_match_props]
            ELSE merge

\* "a if a else c" for an int or float option a
OrNumber(a, c) == IF a # None /\ a[1] # 0 THEN a[1] ELSE c

\* "a if a else c" for a string option a
OrString(a, c) == IF a # None /\ a[1] # "" THEN a[1] ELSE c

\* "a if a else c" for a list option a
OrList(a, c) == IF a # None /\ a[1] # <<>> THEN a[1] ELSE c

ResolveOptions(a, cfg) ==
    [match_props |-> OrList(a.props, cfg.wikidata_match_props),
     ua |-> OrString(a.user_agent, cfg.user_agent),
     lang |-> OrString(a.lang, cfg.language),
     batch_size |-> OrNumber(a.batch_size, cfg.batch_size),
     throttle |-> OrNumber(a.throttle, cfg.throttle),
     retries |-> OrNumber(a.retries, cfg.retries),
     backoff |-> OrNumber(a.backoff, cfg.backoff)]

NoOptions ==
    [match_props |-> <<>>, ua |-> "", lang |-> "", batch_size |-> 0,
     throttle |-> 0, retries |-> 0, backoff |-> 0]

(***************************************************************************)
(* Inputs: the command line, the configuration file, the input frame and   *)
(* the bindings the remote source may return.                              *)
(***************************************************************************)
NoArgs ==
    [props |-> None, lang |-> None, batch_size |-> None, throttle |-> None,
     retries |-> None, backoff |-> None, user_agent |-> None]

\* Command lines with valid values: batch size >= 1, throttle >= 0,
\* retries >= 1, backoff > 1, non-empty strings.
AllArgs ==
    [props : {None, Some(<<"P712">>)},
     lang : {None, Some("en")},
     batch_size : {None, Some(1), Some(2)},
     throttle : {None, Some(0), Some(10)},
     retries : {None, Some(1), Some(2)},
     backoff : {None, Some(20)},
     user_agent : {None, Some("ua")}]

\* The command lines of the runs that are followed to their end: batches of
\* one code with three attempts each, or batches of two codes with one attempt.
RunArgs ==
    {[NoArgs EXCEPT !.batch_size = Some(1), !.retries = Some(3)],
     [NoArgs EXCEPT !.batch_size = Some(2), !.retries = Some(1)]}

NoCfgFile == [kind |-> "none", merge |-> <<>>]

CfgFiles ==
    {NoCfgFile,
     [kind |-> "broken", merge |-> <<>>],
     [kind |-> "ok", merge |-> [throttle |-> 5]],
     [kind |-> "ok",
      merge |-> [wikidata_match_props |-> <<>>, user_agent |-> "cfg-ua",
                 batch_size |-> 3, throttle |-> 0, retries |-> 3,
                 backoff |-> 12, language |-> "pt"]]}

\* Cells of the code column: read_csv gives NaN for an empty field, so no
\* cell is the empty string.
CodeCells == {<<"a">>, <<" ", "a">>, <<"b">>, <<" ">>, NaN}

\* Rows of a frame that has both _feature_id and _coords_json.
RowsWithContext ==
    {[code |-> <<"a">>, fid |-> <<"f">>, cj |-> <<"g">>],
     [code |-> <<" ", "a">>, fid |-> NaN, cj |-> <<"g">>],
     [code |-> <<"b">>, fid |-> <<"f">>, cj |-> <<"g">>],
     [code |-> <<" ">>, fid |-> <<"f">>, cj |-> NaN],
     [code |-> NaN, fid |-> NaN, cj |-> NaN]}

\* Rows of a frame that lacks one of the two columns: the cells of an absent
\* column are written NaN and never read.
RowsWithoutContext == {[code |-> c, fid |-> NaN, cj |-> NaN] : c \in CodeCells}

SeqsUpTo(S, n) == UNION {[1..k -> S] : k \in 0..n}

Frames ==
    {[have_feature |-> TRUE, have_coords |-> TRUE, rows |-> r] :
        r \in SeqsUpTo(RowsWithContext, MaxRows)}
    \cup
    {[have_feature |-> hf, have_coords |-> FALSE, rows |-> r] :
        hf \in BOOLEAN, r \in SeqsUpTo(RowsWithoutContext, MaxRows)}

\* Frames of the runs that are followed through the batch loop only: a code
\* column with up to four different codes, padded, blank and missing cells.
BatchCodeCells == CodeCells \cup {<<"c">>, <<"a", "b">>, <<"b", " ">>}

BatchFrames ==
    {[have_feature |-> FALSE, have_coords |-> FALSE, rows |-> r] :
        r \in SeqsUpTo({[code |-> c, fid |-> NaN, cj |-> NaN] : c \in BatchCodeCells},
                       MaxBatchRows)}

\* A description as generate_qs_csv writes it for the feature ("f", "g").
TaggedDesc == <<"t", " ">> \o Tag(sha1_token(<<"f">>, <<"g">>))

\* Bindings of a response: "item", "code" and "desc" each hold a value; a
\* binding of an entity without description has no "desc".
Bindings ==
    {[code |-> <<"a">>, item |-> <<"w", "/", "Q", "1">>, desc |-> TaggedDesc],
     [code |-> <<"a">>, item |-> <<"w", "/", "Q", "2">>, desc |-> TaggedDesc],
     [code |-> <<"a">>, item |-> <<"w", "/", "Q", "2">>],
     [code |-> <<"b">>, item |-> <<"w", "/", "Q", "1">>],
     [code |-> <<"a">>, item |-> <<"w", "/">>],
     [code |-> <<"a">>, item |-> <<>>, desc |-> TaggedDesc]}

\* b.get(key, {}).get("value", "")
Value(b, key) == IF key \in DOMAIN b THEN b[key] ELSE <<>>

(***************************************************************************)
(* The hit index and the per-row resolution.                               *)
(***************************************************************************)
NoHits == [c \in {} |-> <<>>]

\* code_hits.get(code, [])
Hits(h, code) == IF code \in DOMAIN h THEN h[code] ELSE <<>>

\* Mutant of AddHit: the hit is put in front of the earlier ones.
AddHit_Prepend(h, code, hit) ==
    [c \in DOMAIN h \cup {code} |->
        IF c = code THEN <<hit>> \o Hits(h, code) ELSE h[c]]

\* code_hits.setdefault(code, []).append(hit)
AddHit(h, code, hit) ==
    [c \in DOMAIN h \cup {code} |->
        IF c = code THEN Append(Hits(h, code), hit) ELSE h[c]]

\* Mutant of MergeOne: an entity already listed for the code is not listed
\* again.
MergeOne_Dedup(h, b) ==
    LET code == Value(b, "code")
        item == Value(b, "item")
        desc == Value(b, "desc")
        seen == {Hits(h, code)[k].qid : k \in 1..Len(Hits(h, code))}
    IN IF code # <<>> /\ item # <<>> /\ qid_from_uri(item) \notin seen
       THEN AddHit(h, code, [qid |-> qid_from_uri(item), desc |-> OrEmpty(desc)])
       ELSE h

\* The body of the loop over the bindings (lines 209-214).
MergeOne(h, b) ==
    LET code == Value(b, "code")
        item == Value(b, "item")
        desc == Value(b, "desc")
    IN IF code # <<>> /\ item # <<>>
       THEN AddHit(h, code, [qid |-> qid_from_uri(item), desc |-> OrEmpty(desc)])
       ELSE h

Kept(b) == Value(b, "code") # <<>> /\ Value(b, "item") # <<>>

\* The hits whose description holds the tag (line 236).
WithExt(hits, token) ==
    SelectSeq(hits, LAMBDA h : Contains(h.desc, Tag(token)))

\* Mutant of Resolve: one tagged hit or more is enough (len(with_ext) >= 1).
Resolve_AnyTagged(hits, token) ==
    IF hits = <<>>
    THEN [qid |-> <<>>, unresolved |-> 1, ambiguous |-> 0]
    ELSE IF Len(hits) = 1 \/ token = <<>>
    THEN [qid |-> hits[1].qid, unresolved |-> 0, ambiguous |-> 0]
    ELSE IF Len(WithExt(hits, token)) >= 1
    THEN [qid |-> WithExt(hits, token)[1].qid, unresolved |-> 0, ambiguous |-> 0]
    ELSE [qid |-> <<>>, unresolved |-> 0, ambiguous |-> 1]

\* Mutant of Resolve: the tag is looked for also when there is one hit.
Resolve_TagAlways(hits, token) ==
    IF hits = <<>>
    THEN [qid |-> <<>>, unresolved |-> 1, ambiguous |-> 0]
    ELSE IF token = <<>>
    THEN [qid |-> hits[1].qid, unresolved |-> 0, ambiguous |-> 0]
    ELSE IF Len(WithExt(hits, token)) = 1
    THEN [qid |-> WithExt(hits, token)[1].qid, unresolved |-> 0, ambiguous |-> 0]
    ELSE [qid |-> <<>>, unresolved |-> 0, ambiguous |-> 1]

\* Mutant of Resolve: a code without hits is counted as ambiguous.
Resolve_ZeroAmbiguous(hits, token) ==
    IF hits = <<>>
    THEN [qid |-> <<>>, unresolved |-> 0, ambiguous |-> 1]
    ELSE IF Len(hits) = 1 \/ token = <<>>
    THEN [qid |-> hits[1].qid, unresolved |-> 0, ambiguous |-> 0]
    ELSE IF Len(WithExt(hits, token)) = 1
    THEN [qid |-> WithExt(hits, token)[1].qid, unresolved |-> 0, ambiguous |-> 0]
    ELSE [qid |-> <<>>, unresolved |-> 0, ambiguous |-> 1]

\* The body of the loop over the rows, after the lookup (lines 227-241):
\* the identifier appended to chosen and the increments of the counters.
Resolve(hits, token) ==
    IF hits = <<>>
    THEN [qid |-> <<>>, unresolved |-> 1, ambiguous |-> 0]
    ELSE IF Len(hits) = 1 \/ token = <<>>
    THEN [qid |-> hits[1].qid, unresolved |-> 0, ambiguous |-> 0]
    ELSE IF Len(WithExt(hits, token)) = 1
    THEN [qid |-> WithExt(hits, token)[1].qid, unresolved |-> 0, ambiguous |-> 0]
    ELSE [qid |-> <<>>, unresolved |-> 0, ambiguous |-> 1]

\* str(row.get(code_col, "")).strip() (line 223)
RowCode(row) == strip(str(row.code))

\* Mutant of RowToken: a row with a missing cell gets no token.
RowToken_PerRow(frame, row) ==
    IF frame.have_feature /\ frame.have_coords /\ row.fid # NaN /\ row.cj # NaN
    THEN sha1_token(str(OrEmpty(fillna(row.fid))), str(OrEmpty(fillna(row.cj))))
    ELSE <<>>

\* Lines 169-177.
RowToken(frame, row) ==
    IF frame.have_feature /\ frame.have_coords
    THEN sha1_token(str(OrEmpty(fillna(row.fid))), str(OrEmpty(fillna(row.cj))))
    ELSE <<>>

\* Line 179.
UniqueCodes(frame) ==
    sorted({strip(str(fillna(frame.rows[i].code))) : i \in 1..Len(frame.rows)}
           \ {<<>>})

\* df["wikidata"].astype(bool).sum() (line 244)
WithQid(ch) == Cardinality({i \in 1..Len(ch) : ch[i] # <<>>})

(***************************************************************************)
(* The run of main().                                                      *)
(***************************************************************************)
InitRun(a, f, frame) ==
    /\ pc = "options"
    /\ args = a
    /\ cfg_file = f
    /\ opts = NoOptions
    /\ df = frame
    /\ ext_tokens = <<>>
    /\ codes = <<>>
    /\ bi = 0
    /\ batches = <<>>
    /\ attempt = 0
    /\ requests = 0
    /\ sleeps = 0
    /\ last = "none"
    /\ data = "none"
    /\ received = <<>>
    /\ code_hits = NoHits
    /\ total = 0
    /\ chosen = <<>>
    /\ unresolved = 0
    /\ ambiguous = 0
    /\ ri = 0
    /\ error = ""
    /\ now = 0
    /\ start = 0
    /\ first_at = <<>>
    /\ qs_tokens = None

\* A remote source that answers at once.
Instant == {0}

\* A frame that is no harmonized file.
NoSource == [geom |-> "none", rows |-> <<>>]

NotHarmonized == source = NoSource /\ csv = <<>>

Init ==
    /\ \E a \in RunArgs, frame \in Frames : InitRun(a, NoCfgFile, frame)
    /\ remote = Bindings
    /\ latencies = Instant
    /\ NotHarmonized

\* Lines 152-160.
ReadOptions ==
    /\ pc = "options"
    /\ opts' = ResolveOptions(args, read_merge_cfg(cfg_file))
    /\ pc' = "prepare"
    /\ UNCHANGED <<args, cfg_file, df, ext_tokens, codes, bi, batches, attempt,
                   requests, sleeps, last, data, received, code_hits, total,
                   chosen, unresolved, ambiguous, ri, error>>
    /\ UNCHANGED <<env, qs_tokens, clock>>

\* Lines 169-179 and 202-203.
Prepare ==
    /\ pc = "prepare"
    /\ ext_tokens' = [i \in 1..Len(df.rows) |-> RowToken(df, df.rows[i])]
    /\ codes' = UniqueCodes(df)
    /\ pc' = "batch"
    /\ UNCHANGED <<args, cfg_file, opts, df, bi, batches, attempt, requests,
                   sleeps, last, data, received, code_hits, total, chosen,
                   unresolved, ambiguous, ri, error>>
    /\ UNCHANGED <<env, qs_tokens, clock>>

\* Line 204-207: the generator yields codes[i:i+batch_size] and main calls
\* http_post_sparql with the query built from it.
NextBatch ==
    /\ pc = "batch"
    /\ bi < Len(codes)
    /\ batches' = Append(batches, Slice(codes, bi, bi + opts.batch_size))
    /\ attempt' = 0
    /\ requests' = 0
    /\ sleeps' = 0
    /\ last' = "none"
    /\ pc' = "send"
    /\ UNCHANGED <<args, cfg_file, opts, df, ext_tokens, codes, bi, data, received,
                   code_hits, total, chosen, unresolved, ambiguous, ri, error>>
    /\ start' = now
    /\ UNCHANGED <<env, qs_tokens, now, first_at>>

\* Line 55 in tenths of a second: (backoff ** (attempt - 1)) + 0.1 * attempt,
\* with backoff in tenths.  Exact for the first and the second attempt, the
\* only ones a send of three attempts sleeps after; rounded down beyond.
BackoffSleep(backoff, n) == (10 * backoff ^ (n - 1)) \div (10 ^ (n - 1)) + n

\* Mutant of ThrottleSleep: the whole interval is slept after every batch.
ThrottleSleep_Full(elapsed, throttle) == throttle

\* Lines 216-217: how long main sleeps after a batch that took elapsed.
ThrottleSleep(elapsed, throttle) ==
    IF elapsed < throttle THEN throttle - elapsed ELSE 0

\* What an attempt of http_post_sparql can raise inside its try block:
\* requests.post (transport), line 49 (a retryable status), raise_for_status
\* (another error status), r.json() (a body that is not JSON).
Failures == {"transport", "retryable_status", "http_error", "bad_json"}

\* Mutant of Exhausted: one attempt too many (attempt > retries).
Exhausted_Late(n, retries) == n > retries

\* Line 53.
Exhausted(n, retries) == n >= retries

\* Mutant of PostFails: an exhausted send is given up and the loop goes on
\* with the next batch.
PostFails_Skip ==
    /\ pc = "send"
    /\ \E kind \in Failures :
         /\ attempt' = attempt + 1
         /\ requests' = requests + 1
         /\ last' = kind
         /\ IF Exhausted(attempt + 1, opts.retries)
            THEN /\ pc' = "batch"
                 /\ bi' = bi + opts.batch_size
                 /\ sleeps' = sleeps
            ELSE /\ pc' = "send"
                 /\ bi' = bi
                 /\ sleeps' = sleeps + 1
    /\ UNCHANGED <<args, cfg_file, opts, df, ext_tokens, codes, batches, data,
                   received, code_hits, total, chosen, unresolved, ambiguous, ri,
                   error>>
    /\ first_at' = IF requests = 0 THEN Append(first_at, now) ELSE first_at
    /\ \E d \in latencies :
         now' = now + d + IF Exhausted(attempt + 1, opts.retries)
                          THEN 0
                          ELSE BackoffSleep(opts.backoff, attempt + 1)
    /\ UNCHANGED <<env, qs_tokens, start>>

\* Lines 45-57 when the attempt raises.
PostFails ==
    /\ pc = "send"
    /\ \E kind \in Failures :
         /\ attempt' = attempt + 1
         /\ requests' = requests + 1
         /\ last' = kind
         /\ IF Exhausted(attempt + 1, opts.retries)
            THEN /\ pc' = "failed"
                 /\ error' = kind
                 /\ sleeps' = sleeps
            ELSE /\ pc' = "send"
                 /\ error' = error
                 /\ sleeps' = sleeps + 1
    /\ UNCHANGED <<args, cfg_file, opts, df, ext_tokens, codes, bi, batches, data,
                   received, code_hits, total, chosen, unresolved, ambiguous, ri>>
    /\ first_at' = IF requests = 0 THEN Append(first_at, now) ELSE first_at
    /\ \E d \in latencies :
         now' = now + d + IF Exhausted(attempt + 1, opts.retries)
                          THEN 0
                          ELSE BackoffSleep(opts.backoff, attempt + 1)
    /\ UNCHANGED <<env, qs_tokens, start>>

\* Lines 45-51 when the attempt returns r.json(): a mapping, or JSON of
\* another shape.
PostReturns ==
    /\ pc = "send"
    /\ attempt' = attempt + 1
    /\ requests' = requests + 1
    /\ last' = "ok"
    /\ data' \in {"mapping", "other"}
    /\ pc' = "merge"
    /\ UNCHANGED <<args, cfg_file, opts, df, ext_tokens, codes, bi, batches,
                   sleeps, received, code_hits, total, chosen, unresolved,
                   ambiguous, ri, error>>
    /\ first_at' = IF requests = 0 THEN Append(first_at, now) ELSE first_at
    /\ \E d \in latencies : now' = now + d
    /\ UNCHANGED <<env, qs_tokens, start>>

\* Line 208 on JSON that is no mapping: data.get raises.
MergeRaises ==
    /\ pc = "merge"
    /\ data = "other"
    /\ pc' = "failed"
    /\ error' = "AttributeError"
    /\ UNCHANGED <<args, cfg_file, opts, df, ext_tokens, codes, bi, batches,
                   attempt, requests, sleeps, last, data, received, code_hits,
                   total, chosen, unresolved, ambiguous, ri>>
    /\ UNCHANGED <<env, qs_tokens, clock>>

\* Lines 208-214: one binding of the response.
MergeBinding ==
    /\ pc = "merge"
    /\ data = "mapping"
    /\ Len(received) < MaxBindings
    /\ \E b \in remote :
         /\ code_hits' = MergeOne(code_hits, b)
         /\ total' = IF Kept(b) THEN total + 1 ELSE total
         /\ received' = Append(received, b)
    /\ UNCHANGED <<pc, args, cfg_file, opts, df, ext_tokens, codes, bi, batches,
                   attempt, requests, sleeps, last, data, chosen, unresolved,
                   ambiguous, ri, error>>
    /\ UNCHANGED <<env, qs_tokens, clock>>

\* Lines 215-218: the bindings are exhausted, the time since line 206 is
\* measured, the throttle sleep is taken and the generator is advanced.
EndBatch ==
    /\ pc = "merge"
    /\ data = "mapping"
    /\ bi' = bi + opts.batch_size
    /\ data' = "none"
    /\ attempt' = 0
    /\ requests' = 0
    /\ sleeps' = 0
    /\ last' = "none"
    /\ pc' = "batch"
    /\ UNCHANGED <<args, cfg_file, opts, df, ext_tokens, codes, batches, received,
                   code_hits, total, chosen, unresolved, ambiguous, ri, error>>
    /\ now' = now + ThrottleSleep(now - start, opts.throttle)
    /\ UNCHANGED <<env, qs_tokens, start, first_at>>

\* Line 204 when range() is exhausted.
BatchesDone ==
    /\ pc = "batch"
    /\ bi >= Len(codes)
    /\ pc' = "rows"
    /\ UNCHANGED <<args, cfg_file, opts, df, ext_tokens, codes, bi, batches,
                   attempt, requests, sleeps, last, data, received, code_hits,
                   total, chosen, unresolved, ambiguous, ri, error>>
    /\ UNCHANGED <<env, qs_tokens, clock>>

\* Lines 222-241: one row.
ResolveRow ==
    /\ pc = "rows"
    /\ ri < Len(df.rows)
    /\ LET row == df.rows[ri + 1]
           r == Resolve(Hits(code_hits, RowCode(row)), ext_tokens[ri + 1])
       IN /\ chosen' = Append(chosen, r.qid)
          /\ unresolved' = unresolved + r.unresolved
          /\ ambiguous' = ambiguous + r.ambiguous
    /\ ri' = ri + 1
    /\ UNCHANGED <<pc, args, cfg_file, opts, df, ext_tokens, codes, bi, batches,
                   attempt, requests, sleeps, last, data, received, code_hits,
                   total, error>>
    /\ UNCHANGED <<env, qs_tokens, clock>>

\* Lines 243-257: the column is set, the summary printed, the file written.
WriteOutput ==
    /\ pc = "rows"
    /\ ri = Len(df.rows)
    /\ pc' = "done"
    /\ UNCHANGED <<args, cfg_file, opts, df, ext_tokens, codes, bi, batches,
                   attempt, requests, sleeps, last, data, received, code_hits,
                   total, chosen, unresolved, ambiguous, ri, error>>
    /\ UNCHANGED <<env, qs_tokens, clock>>

Next ==
    \/ ReadOptions
    \/ Prepare
    \/ NextBatch
    \/ PostFails
    \/ PostReturns
    \/ MergeRaises
    \/ MergeBinding
    \/ EndBatch
    \/ BatchesDone
    \/ ResolveRow
    \/ WriteOutput

Spec == Init /\ [][Next]_vars

(***************************************************************************)
(* Properties of the per-row resolution.                                   *)
(***************************************************************************)
\* The hits of row i's code, and the positions of those that hold row i's tag.
RowHits(i) == Hits(code_hits, RowCode(df.rows[i]))
TaggedAt(i) ==
    {k \in 1..Len(RowHits(i)) :
        Contains(RowHits(i)[k].desc,
                 <<"[", "E", "X", "T", ":">> \o ext_tokens[i] \o <<"]">>)}

\* The step of the loop of line 222 that handles row ri + 1.
RowStep == pc = "rows" /\ ri' = ri + 1

\* The entity id of the first kept binding that arrived for a code.
FirstArrival(code) ==
    LET at == {k \in 1..Len(received) :
                  /\ Value(received[k], "code") = code
                  /\ Value(received[k], "item") # <<>>}
        first == CHOOSE k \in at : \A j \in at : k <= j
    IN qid_from_uri(Value(received[first], "item"))

\* C1: a row whose code has two hits or more and whose token is not empty gets
\* the entity id of the one hit whose description holds "[EXT:token]"; when no
\* hit or several hits hold it, the row gets the empty identifier and the
\* ambiguous counter grows by exactly one.
C1_TagDisambiguation ==
    [][(RowStep /\ Len(RowHits(ri + 1)) >= 2 /\ ext_tokens[ri + 1] # <<>>) =>
          IF Cardinality(TaggedAt(ri + 1)) = 1
          THEN \E k \in TaggedAt(ri + 1) :
                   chosen' = Append(chosen, RowHits(ri + 1)[k].qid)
          ELSE /\ chosen' = Append(chosen, <<>>)
               /\ ambiguous' = ambiguous + 1]_vars

\* A finished run in which one row was resolved by its tag and another row of
\* the same code, whose tag no hit holds, was counted ambiguous.
C1_Witness ==
    /\ pc = "done"
    /\ ambiguous = 1
    /\ \E i, j \in 1..Len(chosen) :
         /\ Len(RowHits(i)) >= 2 /\ ext_tokens[i] # <<>>
         /\ Cardinality(TaggedAt(i)) = 1
         /\ chosen[i] # <<>>
         /\ Len(RowHits(j)) >= 2 /\ ext_tokens[j] # <<>>
         /\ TaggedAt(j) = {}
         /\ chosen[j] = <<>>

\* C2: a row whose code has exactly one hit gets that hit's entity id whatever
\* its token, and neither counter changes.
C2_SingleHit ==
    [][(RowStep /\ Len(RowHits(ri + 1)) = 1) =>
          /\ chosen' = Append(chosen, RowHits(ri + 1)[1].qid)
          /\ unresolved' = unresolved
          /\ ambiguous' = ambiguous]_vars

\* A finished run with one hit for a code, given to a row whose tag the hit
\* holds and to a row whose tag it does not hold.
C2_Witness ==
    /\ pc = "done"
    /\ unresolved = 0 /\ ambiguous = 0
    /\ \E i, j \in 1..Len(chosen) :
         /\ Len(RowHits(i)) = 1 /\ TaggedAt(i) = {1}
         /\ Len(RowHits(j)) = 1 /\ TaggedAt(j) = {} /\ ext_tokens[j] # <<>>
         /\ chosen[i] = RowHits(i)[1].qid
         /\ chosen[j] = chosen[i]
         /\ chosen[i] # <<>>

\* C3: a row whose code has several hits and whose token is empty gets the
\* entity id of the first binding that arrived for the code, and is counted
\* neither unresolved nor ambiguous.
C3_FirstHitWins ==
    [][(RowStep /\ Len(RowHits(ri + 1)) >= 2 /\ ext_tokens[ri + 1] = <<>>) =>
          /\ chosen' = Append(chosen, FirstArrival(RowCode(df.rows[ri + 1])))
          /\ unresolved' = unresolved
          /\ ambiguous' = ambiguous]_vars

\* A finished run in which a row without token got the first of two hits that
\* carry different entity ids.
C3_Witness ==
    /\ pc = "done"
    /\ \E i \in 1..Len(chosen) :
         /\ ext_tokens[i] = <<>>
         /\ Len(RowHits(i)) = 2
         /\ RowHits(i)[1].qid # RowHits(i)[2].qid
         /\ chosen[i] = RowHits(i)[1].qid

\* C4: a row whose code has no hit gets the empty identifier, the unresolved
\* counter grows by exactly one, the ambiguous counter stays, and the run goes
\* on with the next row.
C4_ZeroHits ==
    [][(RowStep /\ RowHits(ri + 1) = <<>>) =>
          /\ chosen' = Append(chosen, <<>>)
          /\ unresolved' = unresolved + 1
          /\ ambiguous' = ambiguous
          /\ pc' = "rows"
          /\ error' = ""]_vars

\* A finished run whose first row had no hit and whose second row was resolved.
C4_Witness ==
    /\ pc = "done"
    /\ Len(chosen) = 2
    /\ RowHits(1) = <<>> /\ chosen[1] = <<>>
    /\ chosen[2] # <<>>
    /\ unresolved = 1

(***************************************************************************)
(* Properties of http_post_sparql.                                         *)
(***************************************************************************)
\* C5: with retries = N >= 1, a send issues at most N requests; while every
\* attempt has failed a backoff sleep follows each failure but the N-th, and
\* the N-th failure ends the run with that failure as its error.
C5_RetryExhaustion ==
    pc \in {"send", "merge", "failed"} =>
        /\ requests <= opts.retries
        /\ pc = "send" => (sleeps = requests /\ requests < opts.retries)
        /\ (pc = "failed" /\ error \in Failures) =>
              /\ requests = opts.retries
              /\ sleeps = opts.retries - 1
              /\ error = last

\* A send with retries = 3 that failed three times, slept twice and ended the
\* run.
C5_Witness ==
    /\ pc = "failed"
    /\ opts.retries = 3
    /\ requests = 3
    /\ sleeps = 2
    /\ error \in Failures

\* C6: after an attempt whose body could not be parsed, the send issues no
\* further request for the query.
C6_MalformedBodyIsFatal ==
    [][(pc = "send" /\ last = "bad_json") => requests' = requests]_vars

(***************************************************************************)
(* Batching.  SpecBatch follows the runs in which the remote source        *)
(* answers every query at once and holds no entity for any code.           *)
(***************************************************************************)
InitBatch ==
    /\ \E b \in {1, 2, 3}, frame \in BatchFrames :
          InitRun([NoArgs EXCEPT !.batch_size = Some(b)], NoCfgFile, frame)
    /\ remote = {}
    /\ latencies = Instant
    /\ NotHarmonized

NextBatchLoop ==
    \/ ReadOptions
    \/ Prepare
    \/ NextBatch
    \/ PostReturns
    \/ EndBatch
    \/ BatchesDone

SpecBatch == InitBatch /\ [][NextBatchLoop]_vars

\* cell is code with blanks around it
Padded(cell, code) ==
    \E p \in 1..(Len(cell) - Len(code) + 1) :
        /\ SubSeq(cell, p, p + Len(code) - 1) = code
        /\ \A k \in 1..Len(cell) :
              (k < p \/ k > p + Len(code) - 1) => cell[k] = " "

CodeSet == {codes[k] : k \in 1..Len(codes)}

\* C7: once the batch loop has ended, codes holds every trimmed non-empty code
\* of the frame once, in increasing order, and the batches split it: there
\* are ceil(n/b) of them, each of b codes but the last, which has 1..b, and
\* every code is at one place of one batch.
C7_BatchPartition ==
    pc = "rows" =>
        LET n == Len(codes)
            b == opts.batch_size
            m == Len(batches)
        IN /\ \A c \in CodeSet : c # <<>> /\ c[1] # " " /\ c[Len(c)] # " "
           /\ \A c \in CodeSet : \E i \in 1..Len(df.rows) : Padded(df.rows[i].code, c)
           /\ \A i \in 1..Len(df.rows) :
                 (df.rows[i].code # NaN /\ \E k \in 1..Len(df.rows[i].code) :
                                              df.rows[i].code[k] # " ")
                 => \E c \in CodeSet : Padded(df.rows[i].code, c)
           /\ \A k \in 1..(n - 1) : StrLess(codes[k], codes[k + 1])
           /\ m * b >= n /\ (m - 1) * b < n
           /\ \A k \in 1..(m - 1) : Len(batches[k]) = b
           /\ m > 0 => Len(batches[m]) \in 1..b
           /\ \A c \in CodeSet :
                 Cardinality({pos \in (1..m) \X (1..b) :
                                 /\ pos[2] <= Len(batches[pos[1]])
                                 /\ batches[pos[1]][pos[2]] = c}) = 1

\* Three codes, one of them in two rows, split into a batch of two and a batch
\* of one.
C7_Witness ==
    /\ pc = "rows"
    /\ Len(df.rows) = 4
    /\ Len(codes) = 3
    /\ opts.batch_size = 2
    /\ Len(batches) = 2
    /\ Len(batches[1]) = 2
    /\ Len(batches[2]) = 1

(***************************************************************************)
(* Tokens of rows without context.                                         *)
(***************************************************************************)
Prepared == pc \in {"batch", "send", "merge", "rows", "done", "failed"}

LacksContext(i) == df.rows[i].fid = NaN \/ df.rows[i].cj = NaN

\* C8 as stated: the token of a row is empty whenever the row's feature
\* identity or geometry descriptor is missing, also in a frame that has both
\* columns, and such a row with several hits gets the first hit.
C8_EmptyTokenPerRow ==
    Prepared =>
        \A i \in 1..Len(df.rows) :
            LacksContext(i) =>
                /\ ext_tokens[i] = <<>>
                /\ (i <= Len(chosen) /\ Len(RowHits(i)) >= 2)
                       => chosen[i] = RowHits(i)[1].qid

\* C8, amended: the token of a row is empty whenever the frame lacks the
\* _feature_id or the _coords_json column, and then a row with several hits
\* gets the first hit; in a frame that has both columns every row has a
\* non-empty token, also a row whose cells are missing, and a row with
\* several hits is resolved by its tag.
C8_EmptyTokenPerFrame ==
    Prepared =>
        \A i \in 1..Len(df.rows) :
            IF df.have_feature /\ df.have_coords
            THEN /\ ext_tokens[i] # <<>>
                 /\ (i <= Len(chosen) /\ Len(RowHits(i)) >= 2) =>
                        IF Cardinality(TaggedAt(i)) = 1
                        THEN \E k \in TaggedAt(i) : chosen[i] = RowHits(i)[k].qid
                        ELSE chosen[i] = <<>>
            ELSE /\ ext_tokens[i] = <<>>
                 /\ (i <= Len(chosen) /\ Len(RowHits(i)) >= 2)
                        => chosen[i] = RowHits(i)[1].qid

\* A finished run on a frame with both columns: a row without feature
\* identity has a token, and with two hits it is left without identifier
\* although the first hit has one.
C8_Witness ==
    /\ pc = "done"
    /\ df.have_feature /\ df.have_coords
    /\ \E i \in 1..Len(chosen) :
         /\ df.rows[i].fid = NaN
         /\ ext_tokens[i] # <<>>
         /\ Len(RowHits(i)) = 2
         /\ RowHits(i)[1].qid # <<>>
         /\ chosen[i] = <<>>

(***************************************************************************)
(* Options.  SpecCfg resolves the options of every command line and        *)
(* configuration file of AllArgs and CfgFiles.                             *)
(***************************************************************************)
NoFrame == [have_feature |-> FALSE, have_coords |-> FALSE, rows |-> <<>>]

InitCfg ==
    /\ \E a \in AllArgs, f \in CfgFiles : InitRun(a, f, NoFrame)
    /\ remote = {}
    /\ latencies = Instant
    /\ NotHarmonized

NextCfg == ReadOptions

SpecCfg == InitCfg /\ [][NextCfg]_vars

\* C9: an option the caller supplies is used with exactly the supplied value.
C9_SuppliedOptionWins ==
    pc = "prepare" =>
        /\ args.props # None => opts.match_props = args.props[1]
        /\ args.user_agent # None => opts.ua = args.user_agent[1]
        /\ args.lang # None => opts.lang = args.lang[1]
        /\ args.batch_size # None => opts.batch_size = args.batch_size[1]
        /\ args.throttle # None => opts.throttle = args.throttle[1]
        /\ args.retries # None => opts.retries = args.retries[1]
        /\ args.backoff # None => opts.backoff = args.backoff[1]

(***************************************************************************)
(* The summary.                                                            *)
(***************************************************************************)
\* C10: at the end of a run every row is counted once among with_qid,
\* unresolved and ambiguous, chosen has one identifier per row, and rows of
\* the same code and token have the same identifier.
C10_EveryRowCounted ==
    pc = "done" =>
        /\ Len(chosen) = Len(df.rows)
        /\ Len(df.rows) = WithQid(chosen) + unresolved + ambiguous
        /\ \A i, j \in 1..Len(chosen) :
              (RowCode(df.rows[i]) = RowCode(df.rows[j]) /\ ext_tokens[i] = ext_tokens[j])
                  => chosen[i] = chosen[j]

(***************************************************************************)
(* The batch loop as a whole.                                              *)
(***************************************************************************)
\* The hits that a sequence of received bindings gives a code, in arrival
\* order.
Arrived(rec, code) ==
    LET kept == SelectSeq(rec, LAMBDA b : Value(b, "code") = code /\ Kept(b))
    IN [k \in 1..Len(kept) |->
           [qid |-> qid_from_uri(Value(kept[k], "item")),
            desc |-> Value(kept[k], "desc")]]

\* The index that a sequence of received bindings amounts to: one entry for
\* each code that arrived with a non-empty item.
ArrivedIndex(rec) ==
    LET cs == {Value(rec[k], "code") : k \in {j \in 1..Len(rec) : Kept(rec[j])}}
    IN [c \in cs |-> Arrived(rec, c)]

\* C11: a batch is requested only when no send is under way; but for the
\* first batch, the loop comes back for a next batch only from the merge of
\* a response that was returned, with every binding received so far in
\* code_hits; a send whose last attempt fails ends the run, and a run that
\* has ended so stays as it is: no batch is requested, no row resolved, no
\* file written.
C11_SequentialAllOrNothing ==
    [][/\ batches' # batches =>
             /\ pc = "batch" /\ data = "none" /\ requests = 0
             /\ Len(batches') = Len(batches) + 1
             /\ bi = Len(batches) * opts.batch_size
             /\ code_hits = ArrivedIndex(received)
       /\ requests' > requests => (pc = "send" /\ batches' = batches)
       /\ (pc' = "batch" /\ pc # "batch" /\ batches # <<>>) =>
             (pc = "merge" /\ data = "mapping" /\ last = "ok")
       /\ (pc = "send" /\ last' \in Failures /\ attempt' >= opts.retries) =>
             pc' = "failed"
       /\ pc' = "failed" => (chosen' = <<>> /\ ri' = 0)
       /\ pc = "failed" => UNCHANGED vars]_vars

\* A run whose first batch was answered and merged and whose second batch
\* exhausted its three attempts.
C11_Witness ==
    /\ pc = "failed"
    /\ error \in Failures
    /\ Len(batches) = 2
    /\ Len(codes) >= 2
    /\ requests = 3
    /\ received # <<>>
    /\ chosen = <<>>

(***************************************************************************)
(* The hit index.                                                          *)
(***************************************************************************)
IsPrefix(s, t) == Len(s) <= Len(t) /\ SubSeq(t, 1, Len(s)) = s

\* C13: after every step, the hits of each code are the (qid, desc) pairs of
\* the received bindings that carry the code and a non-empty item, in
\* arrival order, a repeated entity being listed again and a missing
\* description being ""; total counts them; a step that receives nothing
\* leaves the hits as they are, and a step only appends to the hits a code
\* already has.
C13_HitIndexAppendOnly ==
    [][/\ IF received' = received
          THEN code_hits' = code_hits /\ total' = total
          ELSE /\ code_hits' = ArrivedIndex(received')
               /\ total' = Len(SelectSeq(received', Kept))
       /\ \A c \in DOMAIN code_hits :
             /\ c \in DOMAIN code_hits'
             /\ IsPrefix(code_hits[c], code_hits'[c])]_vars

\* The same entity was returned twice for a code, once without description:
\* both hits are listed, in arrival order.
C13_Witness ==
    /\ Len(batches) = 2
    /\ Len(received) = 2
    /\ Value(received[1], "desc") # <<>>
    /\ "desc" \notin DOMAIN received[2]
    /\ \E c \in DOMAIN code_hits :
          /\ Len(code_hits[c]) = 2
          /\ code_hits[c][1].qid = code_hits[c][2].qid
          /\ code_hits[c][1].desc # <<>>
          /\ code_hits[c][2].desc = <<>>

(***************************************************************************)
(* Where an identifier comes from.  SpecCodes follows the runs on frames   *)
(* whose code cells are padded, empty or hold a quote, against a remote    *)
(* source that holds an entity for each literal such a run can ask for.    *)
(***************************************************************************)
Quote == "\""

\* Lines 59-60: the literals of the VALUES list of a batch.
build_values_list(batch) ==
    [k \in 1..Len(batch) |-> SelectSeq(batch[k], LAMBDA ch : ch # Quote)]

\* The literals that the queries sent so far have asked for.
Sent ==
    UNION {{build_values_list(batches[j])[k] : k \in 1..Len(batches[j])} :
              j \in 1..Len(batches)}

\* The code of a cell as line 179 takes it: trimmed, "" for an empty cell.
CellCode(cell) == strip(str(fillna(cell)))

QueriedCells == {<<"n", "a", "n", " ">>, <<"a", Quote>>, NaN}

QueriedFrames ==
    {[have_feature |-> FALSE, have_coords |-> FALSE, rows |-> r] :
        r \in SeqsUpTo({[code |-> c, fid |-> NaN, cj |-> NaN] : c \in QueriedCells},
                       MaxRows)}

QueriedBindings ==
    {[code |-> <<"n", "a", "n">>, item |-> <<"w", "/", "Q", "1">>],
     [code |-> <<"a">>, item |-> <<"w", "/", "Q", "2">>]}

InitCodes ==
    /\ \E a \in RunArgs, frame \in QueriedFrames : InitRun(a, NoCfgFile, frame)
    /\ remote = QueriedBindings
    /\ latencies = Instant
    /\ NotHarmonized

SpecCodes == InitCodes /\ [][Next]_vars

\* C14: at the end of a run in which the remote source returned only codes
\* it was asked for, every non-empty identifier of a row is the entity id of
\* a received binding whose code is the row's trimmed code, and that code
\* was sent in a query.
C14_NoFabricatedId ==
    (pc = "done" /\ \A k \in 1..Len(received) : Value(received[k], "code") \in Sent) =>
        \A i \in 1..Len(chosen) :
            chosen[i] # <<>> =>
                /\ CellCode(df.rows[i].code) \in Sent
                /\ \E k \in 1..Len(received) :
                      /\ Kept(received[k])
                      /\ Value(received[k], "code") = CellCode(df.rows[i].code)
                      /\ qid_from_uri(Value(received[k], "item")) = chosen[i]

(***************************************************************************)
(* The producer of the tags.  harmonize_transmission_data.py writes the    *)
(* harmonized file, generate_qs_csv.py reads it and writes "[EXT:token]"   *)
(* into the descriptions, and main() reads the same file.  SpecToken       *)
(* follows the three programs over small source tables.  A geometry text   *)
(* is a sequence of symbols: WktOpen stands for "MULTILINESTRING ((",      *)
(* WktClose for "))", every other symbol but the blank, the apostrophe and *)
(* the quote for one point.                                                *)
(***************************************************************************)
WktOpen == "MULTILINESTRING (("

WktClose == "))"

Apostrophe == "'"

\* Lines 87-91 and 164-168 of harmonize_transmission_data.py: the text is
\* trimmed, then a leading apostrophe and a trailing apostrophe or quote
\* are dropped.
Unquote(text) ==
    LET t == strip(text)
        u == IF t # <<>> /\ Head(t) = Apostrophe THEN Tail(t) ELSE t
    IN IF u # <<>> /\ u[Len(u)] \in {Apostrophe, Quote}
       THEN SubSeq(u, 1, Len(u) - 1)
       ELSE u

\* Lines 84-110: None when the text is blank or has no MULTILINESTRING
\* that is closed at its end, else the JSON text of its points.
to_coords_json_from_wkt_multilinestring(wkt) ==
    LET text == rstrip(Unquote(wkt))
        opens == {k \in 1..Len(text) : text[k] = WktOpen}
        first == CHOOSE k \in opens : \A j \in opens : k <= j
        pts == SelectSeq(SubSeq(text, first + 1, Len(text) - 1),
                         LAMBDA ch : ch # " ")
    IN IF strip(wkt) = <<>> \/ opens = {} \/ text[Len(text)] # WktClose
       THEN None
       ELSE IF pts = <<>>
       THEN Some(<<"[", "]">>)
       ELSE Some(<<"[", "[">> \o pts \o <<"]", "]">>)

\* Lines 157-171: the geometry descriptor of a row, None or Some(text);
\* geom is "none" (no geometry column), "to_coords_json" or "passthrough".
\* A cell is a text or NaN, and str(NaN) is "nan".
coords_json_of(cell, geom) ==
    IF geom = "none"
    THEN None
    ELSE IF geom = "to_coords_json"
    THEN IF to_coords_json_from_wkt_multilinestring(str(cell)) # None
         THEN to_coords_json_from_wkt_multilinestring(str(cell))
         ELSE Some(Unquote(str(cell)))
    ELSE IF strip(str(cell)) = <<>> THEN None ELSE Some(strip(str(cell)))

\* coords_json or ''
OrBlank(opt) == IF opt = None THEN <<>> ELSE opt[1]

\* Lines 174-178: the digest of codigo, the length (absent here) and the
\* descriptor.
feature_id(codigo, coords_json) == HexDigest12(codigo \o OrBlank(coords_json))

\* Lines 137-189, for the three columns the tokens depend on.
build_output_row(row, geom) ==
    [code |-> strip(str(row.codigo)),
     fid |-> feature_id(strip(str(row.codigo)), coords_json_of(row.geom, geom)),
     cj |-> OrBlank(coords_json_of(row.geom, geom))]

\* Lines 215-224: the rows with a code, as the fields of the file written.
run_profile(src) ==
    SelectSeq([i \in 1..Len(src.rows) |-> build_output_row(src.rows[i], src.geom)],
              LAMBDA rec : rec.code # <<>>)

\* Some of the field texts that read_csv takes for a missing value unless
\* told keep_default_na=False.
NaValues ==
    {<<>>, <<"n", "a", "n">>, <<"N", "a", "N">>, <<"N", "A">>,
     <<"n", "u", "l", "l">>, <<"N", "o", "n", "e">>}

\* pd.read_csv of line 149 of generalized_merge_qids.py, on a field.
ReadDefault(field) == IF field \in NaValues THEN NaN ELSE field

\* The frame main() reads from a harmonized file.
ReadHarmonized(file) ==
    [have_feature |-> TRUE, have_coords |-> TRUE,
     rows |-> [i \in 1..Len(file) |->
                  [code |-> ReadDefault(file[i].code),
                   fid |-> ReadDefault(file[i].fid),
                   cj |-> ReadDefault(file[i].cj)]]]

\* Line 116 of generate_qs_csv.py.
ExtCoordsLen == 256

\* Lines 115-117 of generate_qs_csv.py.
ext_token(fid, coords_json) ==
    LET basis == fid \o <<"|">> \o Take(coords_json, ExtCoordsLen)
    IN HexDigest12(EncodeIgnore(basis))

\* generate_qs_csv.py, main (lines 190-234): the file is read with
\* keep_default_na=False, so every field is its text; the descriptor is
\* trimmed and the token of each row is written into its descriptions.
GenerateQs ==
    /\ qs_tokens = None
    /\ qs_tokens' = Some([i \in 1..Len(csv) |->
                             ext_token(csv[i].fid, strip(csv[i].cj))])
    /\ UNCHANGED <<pc, args, cfg_file, opts, df, ext_tokens, codes, bi, batches,
                   attempt, requests, sleeps, last, data, received, code_hits,
                   total, chosen, unresolved, ambiguous, ri, error>>
    /\ UNCHANGED <<env, clock>>

MaxCoordsLen == 300    \* symbols of the longest geometry text

\* A line of MaxCoordsLen symbols that ends with the given symbol.
LongText(end) == [k \in 1..MaxCoordsLen |-> IF k = MaxCoordsLen THEN end ELSE "p"]

\* Geometry cells of the source table: a line, a line cut short behind the
\* apostrophe a spreadsheet puts before a text, the same with a blank
\* between, a long line, no geometry.
GeomCells ==
    {<<WktOpen, "p", "q", WktClose>>,
     <<Apostrophe, WktOpen, "p">>,
     <<Apostrophe, " ", WktOpen, "p">>,
     <<WktOpen>> \o LongText(WktClose),
     NaN}

SourceRows == [codigo : {<<"a">>, <<" ">>}, geom : GeomCells]

Sources ==
    [geom : {"none", "to_coords_json", "passthrough"},
     rows : SeqsUpTo(SourceRows, MaxRows)]

InitToken ==
    /\ \E src \in Sources :
          /\ source = src
          /\ csv = run_profile(src)
          /\ InitRun(NoArgs, NoCfgFile, ReadHarmonized(run_profile(src)))
    /\ remote = {}
    /\ latencies = Instant

NextToken ==
    \/ GenerateQs
    \/ ReadOptions
    \/ Prepare

SpecToken == InitToken /\ [][NextToken]_vars

\* C15: once both programs have read a harmonized file, the token the
\* generator wrote for a row is the token main() computed for it; and with
\* either function, two descriptors with the same first 256 symbols give
\* the same token.
C15_TokenAgreement ==
    /\ (qs_tokens # None /\ Prepared) =>
          \A i \in 1..Len(csv) : qs_tokens[1][i] = ext_tokens[i]
    /\ \A d1, d2 \in {LongText("p"), LongText("q"), <<"p">>} :
          Take(d1, 256) = Take(d2, 256) =>
              /\ ext_token(<<"f">>, d1) = ext_token(<<"f">>, d2)
              /\ sha1_token(<<"f">>, d1) = sha1_token(<<"f">>, d2)

(***************************************************************************)
(* Time.  SpecThrottle follows the batch loop against a remote source      *)
(* whose requests take up to 2.5 s, with the default throttle of 3 s and   *)
(* with --throttle 1.  The steps of main() itself take no time.            *)
(***************************************************************************)
\* Requests that return or raise at once, after 1 s, after 2.5 s.
Slow == {0, 10, 25}

ThrottleArgs ==
    {[NoArgs EXCEPT !.batch_size = Some(1), !.retries = Some(2), !.throttle = t] :
        t \in {None, Some(10)}}

ThrottleFrames ==
    {[have_feature |-> FALSE, have_coords |-> FALSE, rows |-> r] :
        r \in SeqsUpTo({[code |-> c, fid |-> NaN, cj |-> NaN] :
                           c \in {<<"a">>, <<"b">>, <<"c">>}},
                       MaxRows)}

InitThrottle ==
    /\ \E a \in ThrottleArgs, frame \in ThrottleFrames : InitRun(a, NoCfgFile, frame)
    /\ remote = {}
    /\ latencies = Slow
    /\ NotHarmonized

NextThrottle ==
    \/ ReadOptions
    \/ Prepare
    \/ NextBatch
    \/ PostFails
    \/ PostReturns
    \/ EndBatch
    \/ BatchesDone

SpecThrottle == InitThrottle /\ [][NextThrottle]_vars

\* C12: the first requests of two consecutive batches are at least throttle
\* apart; when a batch ends, the time measured runs from before its first
\* request to the end of its merge, so it holds every attempt and backoff
\* sleep, and main sleeps throttle minus that time when that time is less
\* than throttle and does not sleep otherwise; inside a send, time passes
\* in requests and backoff sleeps only, and outside the batches not at all.
C12_InterBatchThrottle ==
    [][/\ \A k \in 1..(Len(first_at') - 1) :
             first_at'[k + 1] - first_at'[k] >= opts'.throttle
       /\ (pc = "merge" /\ pc' = "batch") =>
             /\ Len(first_at) = Len(batches)
             /\ start <= first_at[Len(first_at)]
             /\ now' - now = IF now - start < opts.throttle
                             THEN opts.throttle - (now - start)
                             ELSE 0
       /\ pc \in {"send", "merge"} => start' = start
       /\ (pc = "send" /\ pc' = "send") =>
             now' - now \in {d + BackoffSleep(opts.backoff, attempt') : d \in latencies}
       /\ (pc = "send" /\ pc' # "send") => now' - now \in latencies
       /\ pc \notin {"send", "merge"} => now' = now]_vars

\* The first batch took longer than throttle, retry and backoff sleep
\* included, and was followed at once by the second; the second took less,
\* and main slept the rest of the interval.
C12_Witness ==
    /\ pc = "batch"
    /\ Len(first_at) = 2
    /\ first_at[2] - first_at[1] > opts.throttle
    /\ first_at[2] - first_at[1] >= 25 + BackoffSleep(opts.backoff, 1)
    /\ now - first_at[2] = opts.throttle
    /\ start = first_at[2]

====
